---- MODULE Spec2Model ----
(***************************************************************************)
(* The pipeline controller of tomopy_ui/aps13bm_gui.py (class APS_13BM):   *)
(* one shared in-memory volume, the padding / centre bookkeeping around    *)
(* it, and the event handlers that the operator fires one at a time.       *)
(*                                                                         *)
(* Conventions of the model                                                *)
(*  - data is the attribute self.data: held = FALSE when the attribute     *)
(*    does not exist (never imported, or deleted by client_free_mem);      *)
(*    shape = <<shape[0], shape[1], shape[2]>> of the numpy array, which   *)
(*    is <<angles, rows, columns>> after import; hist = the external       *)
(*    kernels applied to the array since import, oldest first (the array's *)
(*    values are whatever those opaque kernels computed).                  *)
(*  - column coordinates of rotation centres are kept in HALF columns      *)
(*    (twice the Python float), so that sx/2 is exact for odd sx.          *)
(*  - a text field or an attribute that holds no number is <<>>, one that  *)
(*    holds the number v is <<v>>.                                         *)
(*  - an uncaught Python exception ends the handler where it is raised;    *)
(*    everything assigned before it stays assigned.                        *)
(*  - op, raised, calls and logged describe the most recent handler        *)
(*    invocation: its name, the exception that escaped it, the external    *)
(*    kernel calls it made (in order) and the number of records it         *)
(*    appended to the operation log.                                       *)
(*  - centered_on records the centring of the current dataset: <<>> while  *)
(*    find_rot_center has not completed since import, <<c>> once it has    *)
(*    completed on a volume of c columns.                                  *)
(*  - data_slice is the attribute self.data_slice, the shape of the last   *)
(*    single-slice preview (<<>> before the first one).                    *)
(*  - pending is the toolkit's queue of button events not yet dispatched,  *)
(*    in_flight the handlers the main loop has entered and not yet left.   *)
(*    Where the operator is modelled as firing a handler directly, the     *)
(*    dispatch and the handler are one step and both stay empty.           *)
(*  - movie_timer is the attribute self.movie_timer: "none" while it does  *)
(*    not exist, else "running" or "stopped"; movie_index is               *)
(*    self.movie_index (<<>> while it does not exist); stop_movie is       *)
(*    whether the End Movie button is enabled.                             *)
(***************************************************************************)
EXTENDS Integers, Sequences, FiniteSets, TLC

VARIABLES
    data, flat, dark, theta, sx, sy, sz,
    npad, pad_size, cb, find_center_type, save_dtype, save_data_type,
    upper_rot_slice_blank, lower_rot_slice_blank,
    upper_rot_center_blank, lower_rot_center_blank,
    upper_rot_center, lower_rot_center,
    logfile, status_ID,
    op, raised, calls, logged,
    centered_on,
    data_slice,
    ring_width_blank, zinger_kernel_size_blank, zinger_diff_blank,
    pending, in_flight,
    data_max, data_min,
    recon_type, pp_filter_type,
    movie_timer, movie_index, stop_movie

dataset == <<data, flat, dark, theta, sx, sy, sz>>
menus   == <<pad_size, cb, find_center_type, save_dtype, save_data_type,
             recon_type, pp_filter_type>>
fields  == <<upper_rot_slice_blank, lower_rot_slice_blank,
             upper_rot_center_blank, lower_rot_center_blank>>
centers == <<upper_rot_center, lower_rot_center>>
widgets == <<ring_width_blank, zinger_kernel_size_blank, zinger_diff_blank>>
loop    == <<pending, in_flight>>
extrema == <<data_max, data_min>>
movie   == <<movie_timer, movie_index, stop_movie>>
vars    == <<data, flat, dark, theta, sx, sy, sz,
             npad, pad_size, cb, find_center_type, save_dtype, save_data_type,
             upper_rot_slice_blank, lower_rot_slice_blank,
             upper_rot_center_blank, lower_rot_center_blank,
             upper_rot_center, lower_rot_center,
             logfile, status_ID, op, raised, calls, logged, centered_on,
             data_slice, ring_width_blank, zinger_kernel_size_blank,
             zinger_diff_blank, pending, in_flight,
             data_max, data_min, recon_type, pp_filter_type,
             movie_timer, movie_index, stop_movie>>

(***************************************************************************)
(* Bounds of the model.                                                    *)
(***************************************************************************)
\* imported datasets have MaxAngles projections
MaxAngles == 2
\* imported datasets have 1..MaxRows detector rows
MaxRows == 2
\* imported column counts lie within ColSpread of the smallest pad size
ColSpread == 1
\* a centre-search kernel returns the middle column plus 0..MaxOff half columns
MaxOff == 1
\* the operator types slice indices 0..MaxSlice, or one beyond every column
MaxSlice == 2
\* kernels applied to one imported volume
MaxHist == 8
\* the operator types kernel widths -MaxWidth..MaxWidth
MaxWidth == 2
\* ring / zinger filter kernels applied to one imported volume
MaxFilters == 2
\* button events waiting in the toolkit's queue
MaxPending == 2

(***************************************************************************)
(* Program constants.                                                      *)
(***************************************************************************)
PadSmall  == 1024
PadMedium == 2048
PadLarge  == 4096
AirPixels == 10
RingWidthDefault == 9
ZingerKernelDefault == 3

NoPadding   == 0
PadSizeOpts == {NoPadding, PadSmall, PadMedium, PadLarge}
FindCenterList == {"Entropy", "Nghia Vo", "0-180"}
SaveDtypes == {"u1", "u2", "f4"}
SaveDataList == {".tif", ".vol"}

AngleChoices == {MaxAngles}
RowChoices   == 1..MaxRows
ColChoices   == (PadSmall - ColSpread)..(PadSmall + ColSpread)
BeyondCols   == 2 * PadLarge
SliceChoices == (0..MaxSlice) \cup {BeyondCols}
KernelOut    == {<<>>} \cup {<<d>> : d \in 0..MaxOff}

NoData == [held |-> FALSE, shape |-> <<0, 0, 0>>, hist |-> <<>>]
Blank  == <<>>
Val(f) == f[1]

\* the extrema numpy computes of an array: a value fixed by the array's shape and
\* by the kernels that produced its values
ArrayMax(d) == <<"max", d.shape, d.hist>>
ArrayMin(d) == <<"min", d.shape, d.hist>>

\* a menu attribute that holds the string t, or the one-element tuple (t,)
Tag(t) == [tag |-> t, tuple |-> FALSE]
TupleOf(t) == [tag |-> t, tuple |-> TRUE]

RECURSIVE Pow(_, _)
Pow(b, e) == IF e = 0 THEN 1 ELSE b * Pow(b, e - 1)

Call(kernel, nums, strs) == [k |-> kernel, n |-> nums, s |-> strs]
Kernels(cs) == {cs[i].k : i \in 1..Len(cs)}

\* the array after one more kernel, its shape unchanged
Applied(d, kernel) == [d EXCEPT !.hist = Append(@, kernel)]

(***************************************************************************)
(* What a write to self.logfile raises.                                    *)
(***************************************************************************)
LogWriteError(lf) ==
    IF lf = "unset" THEN "AttributeError"
    ELSE IF lf = "closed" THEN "ValueError"
    ELSE "none"

\* the handlers the main loop is still inside once the innermost one has returned
Returned(stack) == IF stack = <<>> THEN <<>> ELSE SubSeq(stack, 1, Len(stack) - 1)

\* how a handler leaves: status label, escaped exception, kernel calls, log records;
\* control goes back to the main loop, and no handler posts an event
Exit(name, st, exc, kcalls, nlog) ==
    /\ op' = name
    /\ status_ID' = st
    /\ raised' = exc
    /\ calls' = kcalls
    /\ logged' = nlog
    /\ in_flight' = Returned(in_flight)
    /\ UNCHANGED pending

\* a handler outside the movie panel: it touches neither the timer, the frame
\* index nor the End Movie button
Leave(name, st, exc, kcalls, nlog) ==
    /\ Exit(name, st, exc, kcalls, nlog)
    /\ UNCHANGED movie

Init ==
    /\ data = NoData
    /\ flat = <<>>
    /\ dark = <<>>
    /\ theta = 0
    /\ sx = 0 /\ sy = 0 /\ sz = 0
    /\ npad = 0
    /\ pad_size = PadMedium
    /\ cb = TRUE
    /\ find_center_type = "Nghia Vo"
    /\ save_dtype = "f4"
    /\ save_data_type = ".vol"
    /\ upper_rot_slice_blank = Blank
    /\ lower_rot_slice_blank = Blank
    /\ upper_rot_center_blank = Blank
    /\ lower_rot_center_blank = Blank
    /\ upper_rot_center = <<>>
    /\ lower_rot_center = <<>>
    /\ logfile = "unset"
    /\ status_ID = ""
    /\ op = "init"
    /\ raised = "none"
    /\ calls = <<>>
    /\ logged = 0
    /\ centered_on = <<>>
    /\ data_slice = <<>>
    /\ ring_width_blank = <<RingWidthDefault>>
    /\ zinger_kernel_size_blank = <<ZingerKernelDefault>>
    /\ zinger_diff_blank = Blank
    /\ movie_timer = "none"
    /\ movie_index = <<>>
    /\ stop_movie = FALSE
    /\ pending = <<>>
    /\ in_flight = <<>>
    /\ data_max = <<>>
    /\ data_min = <<>>
    /\ recon_type = Tag("gridrec")
    /\ pp_filter_type = "unset"

(***************************************************************************)
(* File menu.                                                              *)
(***************************************************************************)
\* the slice defaults client_read_nc derives from sz
DefaultLowerSlice(n) == (4 * n - n) \div 4
DefaultUpperSlice(n) == (4 * n - 3 * n) \div 4

\* import_data: the collaborator returns a volume of shape (nAngles, nRows, nCols)
\* with sx = nCols, sy = nRows, sz = nAngles, and flat / dark of the detector's shape
import_data(nAngles, nRows, nCols) ==
    /\ data' = [held |-> TRUE, shape |-> <<nAngles, nRows, nCols>>, hist |-> <<>>]
    /\ flat' = <<nRows, nCols>>
    /\ dark' = <<nRows, nCols>>
    /\ theta' = nAngles
    /\ sx' = nCols
    /\ sy' = nRows
    /\ sz' = nAngles

client_read_nc ==
    \E nAngles \in AngleChoices, nRows \in RowChoices, nCols \in ColChoices :
        /\ logfile' = "open"
        /\ import_data(nAngles, nRows, nCols)
        /\ lower_rot_slice_blank' = <<DefaultLowerSlice(nAngles)>>
        /\ upper_rot_center_blank' = <<nCols>>
        /\ upper_rot_slice_blank' = <<DefaultUpperSlice(nAngles)>>
        /\ lower_rot_center_blank' = <<nCols>>
        /\ centered_on' = <<>>
        /\ Leave("client_read_nc", "Data Imported", "none", <<>>, 1)
        /\ data_max' = ArrayMax(data')
        /\ data_min' = ArrayMin(data')
        /\ UNCHANGED <<npad, menus, centers, data_slice, widgets>>

client_free_mem ==
    IF ~data.held
    THEN /\ Leave("client_free_mem", status_ID, "AttributeError", <<>>, 0)
         /\ UNCHANGED <<dataset, npad, menus, extrema, fields, centers, logfile, centered_on, data_slice, widgets>>
    ELSE /\ data' = NoData
         /\ Leave("client_free_mem", "Memory Cleared", "none", <<>>, 0)
         /\ UNCHANGED <<flat, dark, theta, sx, sy, sz,
                        npad, menus, extrema, fields, centers, logfile, centered_on, data_slice, widgets>>

(***************************************************************************)
(* Menu and check-box callbacks.                                           *)
(***************************************************************************)
Selected(name) == Leave(name, status_ID, "none", <<>>, 0)

pad_size_combo_recall ==
    \E new_pad \in PadSizeOpts :
        /\ IF new_pad = NoPadding
           THEN pad_size' = 0 /\ npad' = 0
           ELSE pad_size' = new_pad /\ UNCHANGED npad
        /\ Selected("pad_size_combo_recall")
        /\ UNCHANGED <<dataset, cb, find_center_type, save_dtype, save_data_type,
                       fields, centers, logfile, centered_on, data_slice, widgets, recon_type, pp_filter_type, extrema>>

onChecked ==
    \E v \in BOOLEAN :
        /\ cb' = v
        /\ Selected("onChecked")
        /\ UNCHANGED <<dataset, npad, pad_size, find_center_type, save_dtype,
                       save_data_type, fields, centers, logfile, centered_on, data_slice, widgets, recon_type, pp_filter_type, extrema>>

find_center_algo_type ==
    \E t \in FindCenterList :
        /\ find_center_type' = t
        /\ Selected("find_center_algo_type")
        /\ UNCHANGED <<dataset, npad, pad_size, cb, save_dtype, save_data_type,
                       fields, centers, logfile, centered_on, data_slice, widgets, recon_type, pp_filter_type, extrema>>

OnSaveDtypeCombo ==
    \E t \in SaveDtypes :
        /\ save_dtype' = t
        /\ Selected("OnSaveDtypeCombo")
        /\ UNCHANGED <<dataset, npad, pad_size, cb, find_center_type, save_data_type,
                       fields, centers, logfile, centered_on, data_slice, widgets, recon_type, pp_filter_type, extrema>>

OnSaveDataTypeCombo ==
    \E t \in SaveDataList :
        /\ save_data_type' = t
        /\ Selected("OnSaveDataTypeCombo")
        /\ UNCHANGED <<dataset, npad, pad_size, cb, find_center_type, save_dtype,
                       fields, centers, logfile, centered_on, data_slice, widgets, recon_type, pp_filter_type, extrema>>

(***************************************************************************)
(* Preprocessing: normalization.                                           *)
(***************************************************************************)
\* room for k more kernels in the bounded history of the volume
HistRoom(k) == ~data.held \/ Len(data.hist) + k <= MaxHist

\* numpy broadcasting of the (rows, cols) reference images against the array
NormalizeFits(shape, ref) == shape[3] = ref[2] /\ (ref[1] = shape[2] \/ ref[1] = 1)

\* the status label of line 721
PadTooSmallMsg == "Pad Size too small for dataset. Normalized but no padding."

\* a variant that also stops when the pad size equals the column count
PadTooSmallOrEqual(size, cols) == size <= cols

\* line 720: the test that stops normalization before padding
PadTooSmall(size, cols) == size < cols

\* a variant that rounds the half difference up
PadAmountCeil(size, cols) == (size - cols + 1) \div 2

\* line 724: npad = int((pad_size - shape[2]) / 2), the operands non-negative here
PadAmount(size, cols) == (size - cols) \div 2

\* a variant that restores the array the handler started from
RolledBack(before, corrected) == before

\* lines 720-722: the array left behind by the early return is the corrected one
LeftUnpadded(before, corrected) == corrected

\* line 722: the early return comes before `del self.dark` on line 732
KeptOnStop(d) == d

\* tp.misc.morph.pad(axis = 2, mode = 'edge'): n columns added on each side
pad(d, n) ==
    [d EXCEPT !.shape = <<@[1], @[2], @[3] + 2 * n>>, !.hist = Append(@, "pad")]

\* lines 705-716: flat/dark correction, then the optional air normalization
Corrected(d, air) ==
    IF air THEN Applied(Applied(d, "normalize"), "normalize_bg")
    ELSE Applied(d, "normalize")

CorrectionCalls(air) ==
    IF air THEN <<Call("normalize", <<>>, <<>>), Call("normalize_bg", <<AirPixels>>, <<>>)>>
    ELSE <<Call("normalize", <<>>, <<>>)>>

\* a variant that takes the logarithm before the negative values are floored
LoggedBeforeFloor(d) == Applied(Applied(Applied(d, "minus_log"), "floor"), "remove_nan")

\* lines 732-743: flooring, negative logarithm, NaN cleanup
MinusLogged(d) == Applied(Applied(Applied(d, "floor"), "minus_log"), "remove_nan")

\* line 734 assigns 1**-6: Python evaluates an int to a negative int power as
\* the float 1 / base**exponent, held here as <<numerator, denominator>>
FloorBase == 1
FloorExponent == 6
FloorValue == <<1, Pow(FloorBase, FloorExponent)>>

\* the classes of pixel values a flat/dark corrected (and padded) volume holds;
\* some pixel of a radiograph is positive
SignChoices ==
    {<<"positive">>, <<"zero", "positive">>, <<"negative", "positive">>,
     <<"negative", "zero", "positive">>}

\* line 734: np.where(self.data < 0) selects the negative pixels only; they
\* take the floor value, which is positive
Floored(signs) == SelectSeq(signs, LAMBDA c : c # "negative")

\* lines 734-742; the minus_log call carries the classes of the values it is given
MinusLogCalls(signs) ==
    <<Call("floor", FloorValue, <<>>), Call("minus_log", <<>>, Floored(signs)),
      Call("remove_nan", <<>>, <<>>)>>

normalization ==
    /\ HistRoom(6)
    /\ IF LogWriteError(logfile) # "none"
       THEN \* line 700: the first write to the log raises
            /\ Leave("normalization", "Preprocessing", LogWriteError(logfile), <<>>, 0)
            /\ UNCHANGED <<dataset, npad, menus, extrema, fields, centers, logfile, centered_on, data_slice, widgets>>
       ELSE IF ~data.held \/ dark = <<>>
       THEN \* line 702 reads self.data, line 707 reads self.dark
            /\ Leave("normalization", "Preprocessing", "AttributeError", <<>>, 2)
            /\ UNCHANGED <<dataset, npad, menus, extrema, fields, centers, logfile, centered_on, data_slice, widgets>>
       ELSE IF ~NormalizeFits(data.shape, flat)
       THEN \* tp.normalize cannot broadcast the reference images
            /\ Leave("normalization", "Preprocessing", "KernelError",
                     <<Call("normalize", <<>>, <<>>)>>, 2)
            /\ UNCHANGED <<dataset, npad, menus, extrema, fields, centers, logfile, centered_on, data_slice, widgets>>
       ELSE LET d1 == Corrected(data, cb)
                n1 == 3 + (IF cb THEN 1 ELSE 0)
                cols == d1.shape[3]
            IN  IF pad_size # 0 /\ PadTooSmall(pad_size, cols)
                THEN \* lines 719-722
                     /\ data' = LeftUnpadded(data, d1)
                     /\ npad' = 0
                     /\ Leave("normalization", PadTooSmallMsg,
                              "none", CorrectionCalls(cb), n1)
                     /\ dark' = KeptOnStop(dark)
                     /\ UNCHANGED <<flat, theta, sx, sy, sz, menus, extrema, fields,
                                    centers, logfile, centered_on, data_slice, widgets>>
                ELSE LET n == IF pad_size # 0 THEN PadAmount(pad_size, cols) ELSE npad
                         d2 == IF pad_size # 0 THEN pad(d1, n) ELSE d1
                         padcalls == IF pad_size # 0
                                     THEN <<Call("pad", <<n>>, <<"edge">>)>> ELSE <<>>
                         n2 == n1 + (IF pad_size # 0 THEN 2 ELSE 0)
                     IN  \E signs \in SignChoices :
                         /\ npad' = n
                         /\ dark' = <<>>
                         /\ data' = MinusLogged(d2)
                         /\ data_max' = ArrayMax(data')
                         /\ data_min' = ArrayMin(data')
                         /\ Leave("normalization", "Preprocessing Complete", "none",
                                  CorrectionCalls(cb) \o padcalls \o MinusLogCalls(signs), n2 + 4)
                         /\ UNCHANGED <<flat, theta, sx, sy, sz,
                                        menus, fields, centers, logfile, centered_on, data_slice, widgets>>

(***************************************************************************)
(* Centering: find_rot_center.                                             *)
(***************************************************************************)
\* the operator types slice indices into the two slice fields (no handler runs)
edit_slices ==
    \E u \in SliceChoices, l \in SliceChoices :
        /\ upper_rot_slice_blank' = <<u>>
        /\ lower_rot_slice_blank' = <<l>>
        /\ UNCHANGED <<dataset, npad, menus, extrema, upper_rot_center_blank, lower_rot_center_blank,
                       centers, logfile, status_ID, op, raised, calls, logged,
                       centered_on, data_slice, widgets, loop, movie>>

\* a centre the search kernel returns on an array of the given shape, in half columns
Found(shape, r) == shape[3] + Val(r)

\* lines 850-851: the centre shown to the operator, in half columns
DisplayedCenter(c, n) == c - 2 * n

\* line 810 / 813: the only range test of find_rot_center
SliceOutOfRange(slice, shape) == slice > shape[3]

\* the projection opposite to `slice`, lines 819 and 827
Opposite(slice, shape) == (slice + (shape[1] \div 2)) % shape[1]

\* whether the sub-array handed to the search kernel holds any data; the kernel
\* returns a centre when it does and raises when it is empty (<<>> below)
EntropyInput(slice, ind, shape) == slice < shape[1] /\ ind < shape[2]
VoInput(slice, shape) == slice < shape[2]

\* the slice index passed as `ind` to the second tp.find_center call (line 803)
LowerInd(upper_slice, lower_slice) == upper_slice

CenteringFails(exc, kcalls, nlog) ==
    Leave("find_rot_center", "Centering", exc, kcalls, nlog)

CenteringDone(u, l, kcalls, nlog) ==
    /\ upper_rot_center' = <<u>>
    /\ lower_rot_center' = <<l>>
    /\ upper_rot_center_blank' = <<DisplayedCenter(u, npad)>>
    /\ lower_rot_center_blank' = <<DisplayedCenter(l, npad)>>
    /\ centered_on' = <<data.shape[3]>>
    /\ UNCHANGED <<data_slice, widgets>>
    /\ Leave("find_rot_center", "Rotation Center found.", "none", kcalls, nlog)

\* a kernel call that raised, or one that left only the upper centre assigned
NoCenterSet == UNCHANGED <<centers, upper_rot_center_blank, lower_rot_center_blank, centered_on, data_slice, widgets>>
UpperOnlySet(u) ==
    /\ upper_rot_center' = <<u>>
    /\ UNCHANGED <<lower_rot_center, upper_rot_center_blank, lower_rot_center_blank, centered_on, data_slice, widgets>>

Entropy(us, ls, ru, rl) ==
    LET cu == Call("find_center", <<us, us>>, <<>>)
        cl == Call("find_center", <<ls, LowerInd(us, ls)>>, <<>>)
    IN  /\ EntropyInput(us, us, data.shape) <=> ru # <<>>
        /\ EntropyInput(ls, LowerInd(us, ls), data.shape) <=> rl # <<>>
        /\ IF ru = <<>>
           THEN CenteringFails("KernelError", <<cu>>, 4) /\ NoCenterSet
           ELSE IF rl = <<>>
           THEN /\ CenteringFails("KernelError", <<cu, cl>>, 5)
                /\ UpperOnlySet(Found(data.shape, ru))
           ELSE CenteringDone(Found(data.shape, ru), Found(data.shape, rl), <<cu, cl>>, 6)

ZeroTo180(us, ls, ru, rl) ==
    LET cu == Call("find_center_pc", <<us, Opposite(us, data.shape)>>, <<>>)
        cl == Call("find_center_pc", <<ls, Opposite(ls, data.shape)>>, <<>>)
    IN  /\ ru # <<>> /\ rl # <<>>
        /\ IF SliceOutOfRange(us, data.shape)
           THEN /\ Leave("find_rot_center", "Upper slice out of range.", "none", <<>>, 4)
                /\ NoCenterSet
           ELSE IF SliceOutOfRange(ls, data.shape)
           THEN /\ Leave("find_rot_center", "Lower slice out of range.", "none", <<>>, 4)
                /\ NoCenterSet
           ELSE IF us >= data.shape[1]
           THEN \* line 816: self.data[upper_slice,:,:] is out of bounds
                CenteringFails("IndexError", <<>>, 4) /\ NoCenterSet
           ELSE IF ls >= data.shape[1]
           THEN \* line 826, after self.upper_rot_center was assigned on line 822
                /\ CenteringFails("IndexError", <<cu>>, 5)
                /\ UpperOnlySet(Found(data.shape, ru))
           ELSE CenteringDone(Found(data.shape, ru), Found(data.shape, rl), <<cu, cl>>, 6)

NghiaVo(us, ls, ru, rl) ==
    LET cu == Call("find_center_vo", <<us>>, <<>>)
        cl == Call("find_center_vo", <<ls>>, <<>>)
    IN  /\ VoInput(us, data.shape) <=> ru # <<>>
        /\ VoInput(ls, data.shape) <=> rl # <<>>
        /\ IF ru = <<>>
           THEN CenteringFails("KernelError", <<cu>>, 4) /\ NoCenterSet
           ELSE IF rl = <<>>
           THEN /\ CenteringFails("KernelError", <<cu, cl>>, 5)
                /\ UpperOnlySet(Found(data.shape, ru))
           ELSE CenteringDone(Found(data.shape, ru), Found(data.shape, rl), <<cu, cl>>, 6)

find_rot_center ==
    \E ru \in KernelOut, rl \in KernelOut :
    LET fu == upper_rot_slice_blank
        fl == lower_rot_slice_blank
    IN  /\ UNCHANGED <<dataset, npad, menus, extrema, logfile, upper_rot_slice_blank, lower_rot_slice_blank>>
        /\ IF fu = Blank \/ fl = Blank
              \/ upper_rot_center_blank = Blank \/ lower_rot_center_blank = Blank
           THEN \* lines 780-783: int('') or float('') raises
                CenteringFails("ValueError", <<>>, 0) /\ NoCenterSet
           ELSE IF LogWriteError(logfile) # "none"
           THEN CenteringFails(LogWriteError(logfile), <<>>, 0) /\ NoCenterSet
           ELSE IF ~data.held
           THEN CenteringFails("AttributeError", <<>>, 4) /\ NoCenterSet
           ELSE IF find_center_type = "Entropy" THEN Entropy(Val(fu), Val(fl), ru, rl)
           ELSE IF find_center_type = "0-180" THEN ZeroTo180(Val(fu), Val(fl), ru, rl)
           ELSE NghiaVo(Val(fu), Val(fl), ru, rl)

(***************************************************************************)
(* Reconstruction: reconstruct.                                            *)
(***************************************************************************)
\* a variant that hands the displayed centre on as it is
DisplayedOnly(shown, n) == shown

\* lines 981-986: the centre handed on, the displayed value plus the padding
PaddedCenter(shown, n) == IF n # 0 THEN shown + 2 * n ELSE shown

\* lines 989-990: center_slope = (lower - upper) / shape[0],
\* center_array = upper + arange(shape[0]) * center_slope.
\* Entry i is the centre of projection i-1 multiplied by n (and in half columns).
CenterSlope(upper, lower) == lower - upper

\* a variant whose first entry is already one slope step past the upper centre
CenterArrayFromOne(upper, lower, n) ==
    [i \in 1..n |-> n * upper + i * CenterSlope(upper, lower)]

CenterArray(upper, lower, n) ==
    [i \in 1..n |-> n * upper + (i - 1) * CenterSlope(upper, lower)]

\* tp.recon(sinogram_order = False): (angles, rows, cols) -> (rows, cols, cols)
recon(d) ==
    [d EXCEPT !.shape = <<@[2], @[3], @[3]>>, !.hist = Append(@, "recon")]

\* the schedule has shape[0] entries: keep it no longer than an imported angle axis
ScheduleRoom == ~data.held \/ data.shape[1] <= MaxAngles

\* a variant that re-derives the angle sequence from the reconstructed volume
ThetaOfVolume(t, d) == d.shape[1]

\* lines 993-999: tp.recon reads self.theta; nothing is assigned to it
ThetaKept(t, d) == t

reconstruct ==
    /\ HistRoom(2)
    /\ ScheduleRoom
    /\ IF ~data.held
       THEN \* line 979 reads self.data
            /\ Leave("reconstruct", "Reconstructing.", "AttributeError", <<>>, 0)
            /\ UNCHANGED <<dataset, npad, menus, extrema, fields, centers, logfile, centered_on, data_slice, widgets>>
       ELSE IF upper_rot_center_blank = Blank \/ lower_rot_center_blank = Blank
       THEN /\ Leave("reconstruct", "Reconstructing.", "ValueError", <<>>, 0)
            /\ UNCHANGED <<dataset, npad, menus, extrema, fields, centers, logfile, centered_on, data_slice, widgets>>
       ELSE LET upper == PaddedCenter(Val(upper_rot_center_blank), npad)
                lower == PaddedCenter(Val(lower_rot_center_blank), npad)
                center_array == CenterArray(upper, lower, data.shape[1])
                kcall == Call("recon", center_array, <<>>)
                d1 == recon(data)
            IN  IF LogWriteError(logfile) # "none"
                THEN \* line 1001 raises after self.data was replaced on line 993
                     /\ data' = d1
                     /\ Leave("reconstruct", "Reconstructing.", LogWriteError(logfile),
                              <<kcall>>, 0)
                     /\ UNCHANGED <<flat, dark, theta, sx, sy, sz,
                                    npad, menus, extrema, fields, centers, logfile, centered_on, data_slice, widgets>>
                ELSE /\ data' = Applied(d1, "remove_nan")
                     /\ data_max' = ArrayMax(data')
                     /\ data_min' = ArrayMin(data')
                     /\ sx' = d1.shape[3] - 2 * npad
                     /\ sy' = d1.shape[2] - 2 * npad
                     /\ sz' = d1.shape[1]
                     /\ Leave("reconstruct", "Reconstruction Complete", "none",
                              <<kcall, Call("remove_nan", <<>>, <<>>)>>, 2)
                     /\ theta' = ThetaKept(theta, d1)
                     /\ UNCHANGED <<flat, dark,
                                    npad, menus, fields, centers, logfile, centered_on, data_slice, widgets>>

(***************************************************************************)
(* Reconstruction: the algorithm menu and tilt_correction.                 *)
(***************************************************************************)
ReconTypeList == {"Algebraic", "Block Algebraic", "Filtered Back-projection", "Gridrec",
                  "Max-likelihood Expectation", "Ordered-subset Expectation",
                  "ospml_hybrid", "ospml_quad", "pml_hybrid", "pml_quad",
                  "Simultaneous Algebraic", "Total Variation", "Gradient Descent"}

\* lines 909-935: the attribute OnReconCombo leaves for a menu label
ReconTag(label) ==
    CASE label = "Algebraic" -> Tag("art")
      [] label = "Block Algebraic" -> Tag("bart")
      [] label = "Filtered Back-projection" -> Tag("fbp")
      [] label = "Gridrec" -> Tag("gridrec")
      [] label = "Max-likelihood Expectation" -> Tag("mlem")
      [] label = "Ordered-subset Expectation" -> Tag("osem")
      [] label = "Simultaneous Algebraic" -> Tag("sirt")
      [] label = "Total Variation" -> TupleOf("tv")
      [] label = "Gradient Descent" -> Tag("grad")
      [] OTHER -> Tag(label)

OnReconCombo ==
    \E label \in ReconTypeList :
        /\ recon_type' = ReconTag(label)
        /\ Selected("OnReconCombo")
        /\ UNCHANGED <<dataset, npad, pad_size, cb, find_center_type, save_dtype,
                       save_data_type, pp_filter_type, extrema, fields, centers,
                       logfile, centered_on, data_slice, widgets>>

\* the kernels that rework the held volume in place, outside the main pipeline
InPlaceKernels == {"rotate", "gaussian_filter", "median_filter", "sobel_filter"}
InPlaceCount(d) == Cardinality({i \in 1..Len(d.hist) : d.hist[i] \in InPlaceKernels})

\* room for one more in-place kernel on the volume
StageRoom == ~data.held \/ (Len(data.hist) < MaxHist /\ InPlaceCount(data) < MaxFilters)

\* lines 949-967.  The slice fields hold whole numbers, the centre fields half
\* columns; scipy.ndimage.rotate returns an array of the projection's shape for
\* a zero angle and may return a larger one otherwise, which line 961 cannot
\* store back.  Projections 0 .. nangles-2 are rotated.
tilt_correction ==
    /\ StageRoom
    /\ UNCHANGED <<flat, dark, theta, sx, sy, sz, npad, menus, extrema, fields, centers,
                   logfile, centered_on, data_slice, widgets>>
    /\ IF ~data.held
       THEN Leave("tilt_correction", "Correcting Tilt", "AttributeError", <<>>, 0)
            /\ UNCHANGED data
       ELSE IF upper_rot_center_blank = Blank \/ lower_rot_center_blank = Blank
               \/ upper_rot_slice_blank = Blank \/ lower_rot_slice_blank = Blank
       THEN Leave("tilt_correction", "Correcting Tilt", "ValueError", <<>>, 0)
            /\ UNCHANGED data
       ELSE IF Val(lower_rot_slice_blank) = Val(upper_rot_slice_blank)
       THEN Leave("tilt_correction", "Correcting Tilt", "ZeroDivisionError", <<>>, 0)
            /\ UNCHANGED data
       ELSE LET rotated == data.shape[1] - 1
                level == Val(upper_rot_center_blank) = Val(lower_rot_center_blank)
                kcall == Call("rotate", <<rotated>>, <<>>)
            IN  IF rotated < 1
                THEN Leave("tilt_correction", "Tilt Corrected", "none", <<>>, 0)
                     /\ UNCHANGED data
                ELSE \E fits \in BOOLEAN :
                        /\ level => fits
                        /\ IF fits
                           THEN /\ data' = Applied(data, "rotate")
                                /\ Leave("tilt_correction", "Tilt Corrected", "none",
                                         <<kcall>>, 0)
                           ELSE /\ UNCHANGED data
                                /\ Leave("tilt_correction", "Correcting Tilt", "ValueError",
                                         <<kcall>>, 0)

(***************************************************************************)
(* Post processing: the filter menu and filter_pp_data.                    *)
(***************************************************************************)
PpFilterList == {"gaussian_filter", "median_filter", "sobel_filter"}

OnppFilterCombo ==
    \E t \in PpFilterList :
        /\ pp_filter_type' = t
        /\ Selected("OnppFilterCombo")
        /\ UNCHANGED <<dataset, npad, pad_size, cb, find_center_type, save_dtype,
                       save_data_type, recon_type, extrema, fields, centers,
                       logfile, centered_on, data_slice, widgets>>

\* lines 1052-1068: self.pp_filter_type exists only once the menu was used
filter_pp_data ==
    /\ StageRoom
    /\ UNCHANGED <<flat, dark, theta, sx, sy, sz, npad, menus, extrema, fields, centers,
                   logfile, centered_on, data_slice, widgets>>
    /\ IF pp_filter_type = "unset" \/ ~data.held
       THEN Leave("filter_pp_data", "Filtering", "AttributeError", <<>>, 0)
            /\ UNCHANGED data
       ELSE LET kcall == Call(pp_filter_type, <<>>, <<>>)
            IN  /\ data' = Applied(data, pp_filter_type)
                /\ IF LogWriteError(logfile) # "none"
                   THEN Leave("filter_pp_data", "Filtering", LogWriteError(logfile),
                              <<kcall>>, 0)
                   ELSE Leave("filter_pp_data", "Data Filtered", "none", <<kcall>>, 1)

(***************************************************************************)
(* Export: save_recon.                                                     *)
(***************************************************************************)
UnsupportedMsg == "netCDF3 does not support unsigned images"

\* a variant that forgets the 16 bit case
UnsupportedU1Only(data_type, dtype) == data_type = ".vol" /\ dtype = "u1"

\* line 1106
Unsupported(data_type, dtype) == data_type = ".vol" /\ (dtype = "u1" \/ dtype = "u2")

save_recon ==
    IF Unsupported(save_data_type, save_dtype)
    THEN /\ Leave("save_recon", UnsupportedMsg, "none", <<>>, 0)
         /\ UNCHANGED <<dataset, npad, menus, extrema, fields, centers, logfile, centered_on, data_slice, widgets>>
    ELSE IF LogWriteError(logfile) # "none"
    THEN /\ Leave("save_recon", "Saving", LogWriteError(logfile), <<>>, 0)
         /\ UNCHANGED <<dataset, npad, menus, extrema, fields, centers, logfile, centered_on, data_slice, widgets>>
    ELSE IF ~data.held
    THEN \* line 1114 reads self.data before the writer is entered
         /\ Leave("save_recon", "Saving", "AttributeError", <<>>, 2)
         /\ UNCHANGED <<dataset, npad, menus, extrema, fields, centers, logfile, centered_on, data_slice, widgets>>
    ELSE /\ logfile' = "closed"
         /\ Leave("save_recon", "Saving completed.", "none",
                  <<Call("save_recon", <<npad>>, <<save_data_type, save_dtype>>)>>, 3)
         /\ UNCHANGED <<dataset, npad, menus, extrema, fields, centers, centered_on, data_slice, widgets>>

(***************************************************************************)
(* Preprocessing: remove_ring and zinger_removal.                          *)
(***************************************************************************)
WidthChoices == (0 - MaxWidth)..MaxWidth
ZingerDiffs  == {Blank, <<1>>}

\* the operator types into the ring-width, zinger kernel-size and zinger
\* difference fields (no handler runs)
edit_widths ==
    \E w \in WidthChoices \cup {RingWidthDefault},
       k \in WidthChoices \cup {ZingerKernelDefault}, d \in ZingerDiffs :
        /\ ring_width_blank' = <<w>>
        /\ zinger_kernel_size_blank' = <<k>>
        /\ zinger_diff_blank' = d
        /\ UNCHANGED <<dataset, npad, menus, extrema, fields, centers, logfile, status_ID,
                       op, raised, calls, logged, centered_on, data_slice, loop, movie>>

\* room for one more filter kernel on the volume
FilterRoom == ~data.held \/ Len(data.hist) < MaxFilters

\* lines 647-648 and 668-669: an even kernel size is incremented by one
MakeOdd(w) == IF w % 2 = 0 THEN w + 1 ELSE w

\* line 675: the size handed to tp.remove_outlier
OutlierSize(zinger_kernel_size, ring_width) == ring_width

\* a variant in which the threshold field always parses
AlwaysParsed(field) == FALSE

\* lines 670-674: float() of the threshold field raises and the bare except
\* catches it
Unparsed(field) == field = Blank

ZingerDiffMsg == "Provide expected difference b/n zinger and median data value"

\* a filter kernel applied to the held volume, then its log record (lines 651-656,
\* 676-683); the opaque kernel may reject a size below 1
Filtered(name, kernel, size, busy, done) ==
    LET kcall == Call(kernel, <<size>>, <<>>)
    IN  \E accepted \in BOOLEAN :
            /\ size >= 1 => accepted
            /\ IF ~accepted
               THEN /\ Leave(name, busy, "KernelError", <<kcall>>, 0)
                    /\ UNCHANGED data
               ELSE /\ data' = Applied(data, kernel)
                    /\ IF LogWriteError(logfile) # "none"
                       THEN Leave(name, busy, LogWriteError(logfile), <<kcall>>, 0)
                       ELSE Leave(name, done, "none", <<kcall>>, 1)

remove_ring ==
    /\ FilterRoom
    /\ UNCHANGED <<flat, dark, theta, sx, sy, sz, npad, menus, extrema, fields, centers,
                   logfile, centered_on, data_slice, widgets>>
    /\ IF ring_width_blank = Blank
       THEN \* line 645: int('') raises
            Leave("remove_ring", "Deringing", "ValueError", <<>>, 0) /\ UNCHANGED data
       ELSE IF ~data.held
       THEN Leave("remove_ring", "Deringing", "AttributeError", <<>>, 0) /\ UNCHANGED data
       ELSE Filtered("remove_ring", "remove_stripe_sf",
                     MakeOdd(Val(ring_width_blank)), "Deringing", "Ring removed.")

zinger_removal ==
    /\ FilterRoom
    /\ UNCHANGED <<flat, dark, theta, sx, sy, sz, npad, menus, extrema, fields, centers,
                   logfile, centered_on, data_slice, widgets>>
    /\ IF zinger_kernel_size_blank = Blank
       THEN Leave("zinger_removal", "Correcting Zingers", "ValueError", <<>>, 0)
            /\ UNCHANGED data
       ELSE IF Unparsed(zinger_diff_blank)
       THEN \* lines 670-674: float() of the field raised and was caught
            Leave("zinger_removal", ZingerDiffMsg, "none", <<>>, 0) /\ UNCHANGED data
       ELSE IF ring_width_blank = Blank
       THEN Leave("zinger_removal", "Correcting Zingers", "ValueError", <<>>, 0)
            /\ UNCHANGED data
       ELSE IF ~data.held
       THEN Leave("zinger_removal", "Correcting Zingers", "AttributeError", <<>>, 0)
            /\ UNCHANGED data
       ELSE Filtered("zinger_removal", "remove_outlier",
                     OutlierSize(MakeOdd(Val(zinger_kernel_size_blank)),
                                 Val(ring_width_blank)),
                     "Correcting Zingers", "Artifacts Removed.")

(***************************************************************************)
(* Centering: the single-slice previews.                                   *)
(***************************************************************************)
\* self.data[:, start:start+1, :] : one row, or none when start is past the rows
SliceOf(shape, start) == <<shape[1], IF start < shape[2] THEN 1 ELSE 0, shape[3]>>

\* lines 858-874 and 881-896: neither preview writes to the log
recon_slice(name, center_blank, slice_blank) ==
    /\ UNCHANGED <<dataset, npad, menus, extrema, fields, centers, logfile, centered_on, widgets>>
    /\ IF center_blank = Blank \/ slice_blank = Blank
       THEN /\ Leave(name, "Reconstructing slice.", "ValueError", <<>>, 0)
            /\ UNCHANGED data_slice
       ELSE IF ~data.held
       THEN /\ Leave(name, "Reconstructing slice.", "AttributeError", <<>>, 0)
            /\ UNCHANGED data_slice
       ELSE LET cut == SliceOf(data.shape, Val(slice_blank))
                kcall == Call("recon", <<PaddedCenter(Val(center_blank), npad)>>, <<>>)
            IN  IF cut[2] = 0
                THEN \* the kernel is handed an empty array and raises
                     /\ data_slice' = <<cut>>
                     /\ Leave(name, "Reconstructing slice.", "KernelError", <<kcall>>, 0)
                ELSE /\ data_slice' = <<recon([held |-> TRUE, shape |-> cut, hist |-> <<>>]).shape>>
                     /\ Leave(name, "Slice Reconstructed.", "none", <<kcall>>, 0)

up_recon_slice == recon_slice("up_recon_slice", upper_rot_center_blank, upper_rot_slice_blank)

lower_recon_slice == recon_slice("lower_recon_slice", lower_rot_center_blank, lower_rot_slice_blank)

(***************************************************************************)
(* The main loop: button events are queued by the toolkit and dispatched   *)
(* one at a time by app.MainLoop(); no handler yields, starts a thread or  *)
(* posts an event.                                                         *)
(***************************************************************************)
Requests == {"client_read_nc", "client_free_mem", "normalization", "reconstruct"}

\* the operator presses a button, whatever the program is doing
post_event ==
    \E h \in Requests :
        /\ Len(pending) < MaxPending
        /\ pending' = Append(pending, h)
        /\ UNCHANGED <<dataset, npad, menus, extrema, fields, centers, logfile, status_ID, op,
                       raised, calls, logged, centered_on, data_slice, widgets, in_flight, movie>>

\* a variant of the loop that dispatches while a handler is still running
AlwaysIdle(stack) == TRUE

\* the loop takes the next event only between handlers
Idle(stack) == stack = <<>>

\* the label a handler sets in its first statement
Entered(h, shown) ==
    IF h = "normalization" THEN "Preprocessing"
    ELSE IF h = "reconstruct" THEN "Reconstructing."
    ELSE shown

\* the loop enters the handler of the oldest pending event
MainLoop ==
    /\ Idle(in_flight)
    /\ pending # <<>>
    /\ in_flight' = Append(in_flight, Head(pending))
    /\ pending' = Tail(pending)
    /\ status_ID' = Entered(Head(pending), status_ID)
    /\ UNCHANGED <<dataset, npad, menus, extrema, fields, centers, logfile, op,
                   raised, calls, logged, centered_on, data_slice, widgets, movie>>

\* the handler entered last runs to its return
handle_event ==
    /\ in_flight # <<>>
    /\ LET h == in_flight[Len(in_flight)]
       IN  \/ h = "client_read_nc" /\ client_read_nc
           \/ h = "client_free_mem" /\ client_free_mem
           \/ h = "normalization" /\ normalization
           \/ h = "reconstruct" /\ reconstruct

(***************************************************************************)
(* Data visualization: the movie.  The timer's ticks are events of the     *)
(* same main loop as the buttons, so onMovieFrame runs between handlers.   *)
(* movie_maker replaces self.movie_timer; the timer it replaces has no     *)
(* other reference and goes away with it, so one timer is modelled.        *)
(***************************************************************************)
Reconstructed(d) == \E i \in 1..Len(d.hist) : d.hist[i] = "recon"

\* the most frames a volume has that was imported and reconstructed at most once
MaxFrames == IF MaxAngles > MaxRows THEN MaxAngles ELSE MaxRows

\* line 1205: self.movie_index += 1.  While no volume is held nothing reads the
\* index, and it is not counted past MaxFrames.
NextFrame(index) == IF Val(index) < MaxFrames THEN <<Val(index) + 1>> ELSE index

\* line 1207: the test that ends the movie
LastFrame(index, nframes) == Val(index) >= nframes - 1

\* lines 1213-1232
movie_maker ==
    /\ stop_movie' = TRUE
    /\ UNCHANGED <<dataset, npad, menus, extrema, fields, centers, logfile,
                   centered_on, data_slice, widgets>>
    /\ IF ~data.held
       THEN \* line 1220 reads self.data
            /\ Exit("movie_maker", "Movie started.", "AttributeError", <<>>, 0)
            /\ UNCHANGED <<movie_timer, movie_index>>
       ELSE /\ movie_index' = <<0>>
            /\ movie_timer' = "running"
            /\ Exit("movie_maker", "Movie finished.", "none",
                    <<Call("display", <<0>>, <<>>)>>, 0)

\* lines 1201-1211: one tick of the running timer
onMovieFrame ==
    /\ movie_timer = "running"
    /\ Idle(in_flight)
    /\ movie_index' = NextFrame(movie_index)
    /\ UNCHANGED <<dataset, npad, menus, extrema, fields, centers, logfile,
                   centered_on, data_slice, widgets, stop_movie>>
    /\ IF ~data.held
       THEN \* line 1206 reads self.data
            /\ Exit("onMovieFrame", status_ID, "AttributeError", <<>>, 0)
            /\ UNCHANGED movie_timer
       ELSE IF LastFrame(movie_index', data.shape[1])
       THEN /\ movie_timer' = "stopped"
            /\ Exit("onMovieFrame", status_ID, "none", <<>>, 0)
       ELSE /\ UNCHANGED movie_timer
            /\ Exit("onMovieFrame", status_ID, "none",
                    <<Call("update_image", <<Val(movie_index'), data.shape[1]>>, <<>>)>>, 0)

\* lines 1234-1237; the End Movie button can be pressed only while it is enabled
onStop ==
    /\ stop_movie
    /\ UNCHANGED <<dataset, npad, menus, extrema, fields, centers, logfile,
                   centered_on, data_slice, widgets, movie_index>>
    /\ IF movie_timer = "none"
       THEN \* line 1235 reads self.movie_timer
            /\ Exit("onStop", status_ID, "AttributeError", <<>>, 0)
            /\ UNCHANGED <<movie_timer, stop_movie>>
       ELSE /\ movie_timer' = "stopped"
            /\ stop_movie' = FALSE
            /\ Exit("onStop", "Movie finished.", "none", <<>>, 0)

(***************************************************************************)
(* Specifications.  Spec lets the operator fire every handler; the others   *)
(* leave the menus and fields a stage does not read as they are at start-up *)
(* or after import.                                                        *)
(***************************************************************************)
Next ==
    \/ client_read_nc
    \/ client_free_mem
    \/ pad_size_combo_recall
    \/ onChecked
    \/ find_center_algo_type
    \/ OnSaveDtypeCombo
    \/ OnSaveDataTypeCombo
    \/ edit_slices
    \/ normalization
    \/ find_rot_center
    \/ reconstruct
    \/ save_recon
    \/ edit_widths
    \/ remove_ring
    \/ zinger_removal
    \/ up_recon_slice
    \/ lower_recon_slice
    \/ OnReconCombo
    \/ tilt_correction
    \/ OnppFilterCombo
    \/ filter_pp_data
    \/ movie_maker
    \/ onMovieFrame
    \/ onStop

Spec == Init /\ [][Next]_vars

NextNorm ==
    \/ client_read_nc
    \/ client_free_mem
    \/ pad_size_combo_recall
    \/ onChecked
    \/ normalization
    \/ reconstruct
    \/ save_recon

SpecNorm == Init /\ [][NextNorm]_vars

NextSlice ==
    \/ client_read_nc
    \/ client_free_mem
    \/ find_center_algo_type
    \/ edit_slices
    \/ find_rot_center

SpecSlice == Init /\ [][NextSlice]_vars

NextExport ==
    \/ client_read_nc
    \/ client_free_mem
    \/ OnSaveDtypeCombo
    \/ OnSaveDataTypeCombo
    \/ normalization
    \/ reconstruct
    \/ save_recon

SpecExport == Init /\ [][NextExport]_vars

NextSchedule ==
    \/ client_read_nc
    \/ normalization
    \/ find_rot_center
    \/ reconstruct

SpecSchedule == Init /\ [][NextSchedule]_vars

NextCenter ==
    \/ client_read_nc
    \/ pad_size_combo_recall
    \/ normalization
    \/ find_rot_center
    \/ reconstruct

SpecCenter == Init /\ [][NextCenter]_vars

NextFilter ==
    \/ client_read_nc
    \/ client_free_mem
    \/ edit_widths
    \/ remove_ring
    \/ zinger_removal
    \/ save_recon

SpecFilter == Init /\ [][NextFilter]_vars

NextPreview ==
    \/ client_read_nc
    \/ normalization
    \/ up_recon_slice
    \/ lower_recon_slice
    \/ reconstruct

SpecPreview == Init /\ [][NextPreview]_vars

NextLoop ==
    \/ post_event
    \/ MainLoop
    \/ handle_event

SpecLoop == Init /\ [][NextLoop]_vars

NextAlgo ==
    \/ client_read_nc
    \/ OnReconCombo
    \/ up_recon_slice
    \/ reconstruct

SpecAlgo == Init /\ [][NextAlgo]_vars

NextStages ==
    \/ client_read_nc
    \/ remove_ring
    \/ normalization
    \/ up_recon_slice
    \/ tilt_correction
    \/ reconstruct
    \/ OnppFilterCombo
    \/ filter_pp_data

SpecStages == Init /\ [][NextStages]_vars

NextTheta ==
    \/ client_read_nc
    \/ normalization
    \/ up_recon_slice
    \/ tilt_correction
    \/ reconstruct
    \/ save_recon

SpecTheta == Init /\ [][NextTheta]_vars

\* zinger removal on an imported volume, with the three fields it reads
NextZinger ==
    \/ client_read_nc
    \/ edit_widths
    \/ zinger_removal

SpecZinger == Init /\ [][NextZinger]_vars

\* the movie next to the handlers that delete or reshape the volume; each
\* dataset is reconstructed at most once.  A running timer keeps ticking.
NextMovie ==
    \/ client_read_nc
    \/ client_free_mem
    \/ reconstruct /\ ~Reconstructed(data)
    \/ movie_maker
    \/ onMovieFrame
    \/ onStop

SpecMovie == Init /\ [][NextMovie]_vars /\ WF_vars(onMovieFrame)

(***************************************************************************)
(* Properties.                                                             *)
(***************************************************************************)
Cols(d) == d.shape[3]
Rows(d) == d.shape[2]
NormalizedOnce(d) == \E i \in 1..Len(d.hist) : d.hist[i] = "minus_log"

\* C1: in every reachable state npad is the number of columns that were
\* edge-padded onto each side of the held volume, i.e. half the difference
\* between its column count and the detector's (the reference images keep
\* the imported column count); so the npad given to the export writer is
\* the padding that was applied.
C1_NpadIsAppliedPadding ==
    data.held => Cols(data) - flat[2] = 2 * npad

\* C2: a full reconstruction requested while no rotation centre has been
\* resolved since import does not run the kernel, does not complete, and
\* leaves the volume as it was.
C2_ReconstructNeedsCenters ==
    [][(reconstruct /\ data.held /\ centered_on = <<>>)
         => /\ data' = data
            /\ "recon" \notin Kernels(calls')
            /\ status_ID' # "Reconstruction Complete"]_vars

\* C3: a full reconstruction requested on a volume whose normalization has
\* not completed (no negative logarithm applied, also after a stop with
\* PadTooSmall) is rejected: the reconstruction kernel is not called.
C3_ReconstructNeedsNormalization ==
    [][(reconstruct /\ data.held /\ ~NormalizedOnce(data))
         => "recon" \notin Kernels(calls')]_vars

\* C4: for every centring variant, when the upper or the lower slice index is
\* at or beyond the volume's row count, find_rot_center ends with an
\* out-of-range status and changes neither internal centre nor either
\* displayed centre.
C4_SliceOutOfRangeLeavesCenters ==
    [][(/\ find_rot_center
        /\ data.held /\ logfile = "open"
        /\ upper_rot_slice_blank # Blank /\ lower_rot_slice_blank # Blank
        /\ \/ Val(upper_rot_slice_blank) >= Rows(data)
           \/ Val(lower_rot_slice_blank) >= Rows(data))
         => /\ status_ID' \in {"Upper slice out of range.", "Lower slice out of range."}
            /\ UNCHANGED <<upper_rot_center, lower_rot_center,
                           upper_rot_center_blank, lower_rot_center_blank>>]_vars

\* C5: an export requested with format '.vol' and dtype 'u1' or 'u2' ends
\* with the unsupported-combination status before any other work: no writer
\* call, no log record, the log file as it was, volume and npad unchanged.
C5_UnsupportedExportFailsFast ==
    [][(save_recon /\ save_data_type = ".vol" /\ save_dtype \in {"u1", "u2"})
         => /\ status_ID' = UnsupportedMsg
            /\ calls' = <<>>
            /\ logged' = 0
            /\ logfile' = logfile
            /\ data' = data
            /\ npad' = npad]_vars

C5_Witness ==
    /\ op = "save_recon" /\ status_ID = UnsupportedMsg
    /\ save_data_type = ".vol" /\ save_dtype = "u2"
    /\ data.held /\ logfile = "open" /\ npad # 0

\* C6 as claimed: a normalization that gets to its padding step with a pad
\* size less than OR EQUAL to the column count stops with PadTooSmall, npad 0
\* and the column count unchanged.
C6_Original ==
    [][(normalization /\ raised' = "none" /\ pad_size # 0 /\ pad_size <= Cols(data))
         => /\ status_ID' = PadTooSmallMsg
            /\ npad' = 0
            /\ Cols(data') = Cols(data)]_vars

\* C6 amended: a normalization that gets to its padding step with a pad size
\* strictly less than the column count stops with PadTooSmall, npad 0 and the
\* column count unchanged; with a pad size equal to the column count it does
\* not stop: it runs to completion with npad 0 and the column count unchanged.
C6_PadTooSmallStrict ==
    [][(normalization /\ raised' = "none" /\ pad_size # 0 /\ pad_size <= Cols(data))
         => /\ npad' = 0
            /\ Cols(data') = Cols(data)
            /\ status_ID' = IF pad_size < Cols(data) THEN PadTooSmallMsg
                            ELSE "Preprocessing Complete"]_vars

C6_Witness ==
    /\ op = "normalization" /\ raised = "none"
    /\ pad_size = Cols(data) /\ npad = 0
    /\ status_ID = "Preprocessing Complete"

\* C7: when normalization stops with PadTooSmall the flat/dark correction (and
\* the air correction when the toggle is on) is what was added to the volume;
\* no padding, flooring, negative logarithm or NaN cleanup ran, the shape is
\* unchanged and the status is the failure, not the completion.
C7_PadTooSmallKeepsCorrection ==
    [][(normalization /\ raised' = "none" /\ pad_size # 0 /\ pad_size < Cols(data))
         => /\ data'.hist = data.hist \o (IF cb THEN <<"normalize", "normalize_bg">>
                                          ELSE <<"normalize">>)
            /\ data'.shape = data.shape
            /\ Kernels(calls') \cap {"pad", "floor", "minus_log", "remove_nan"} = {}
            /\ status_ID' = PadTooSmallMsg]_vars

C7_Witness ==
    /\ op = "normalization" /\ status_ID = PadTooSmallMsg
    /\ ~cb
    /\ Len(data.hist) >= 2
    /\ data.hist[Len(data.hist)] = "normalize"
    /\ data.hist[Len(data.hist) - 1] = "normalize_bg"

\* C8: a normalization that completes with a pad size strictly greater than
\* the column count c sets npad = floor((pad size - c) / 2) and leaves the
\* volume with c + 2 * npad columns, npad on each side (100 columns padded to
\* 128 is 14 a side).
C8_PadAmountIsFloorOfHalf ==
    [][(normalization /\ status_ID' = "Preprocessing Complete" /\ pad_size > Cols(data))
         => /\ 2 * npad' <= pad_size - Cols(data)
            /\ pad_size - Cols(data) < 2 * npad' + 2
            /\ Cols(data') = Cols(data) + 2 * npad'
            /\ \E i \in 1..Len(calls') : calls'[i].k = "pad" /\ calls'[i].n = <<npad'>>
            /\ PadAmount(128, 100) = 14]_vars

C8_Witness ==
    /\ op = "normalization" /\ status_ID = "Preprocessing Complete"
    /\ npad > 0
    /\ Cols(data) = pad_size - 1
    /\ Cols(data) = flat[2] + 2 * npad

\* C9: once find_rot_center has completed, the centre a later full
\* reconstruction hands to the kernel (displayed centre plus current npad) is
\* the internal padded-space centre, whatever ran in between.  Stated for the
\* reconstructions of a volume that still has the column count the centres
\* were found on, where both are coordinates of the same padded columns.
C9_FedCenterIsInternalCenter ==
    [][(reconstruct /\ data.held /\ centered_on = <<Cols(data)>>)
         => /\ Val(upper_rot_center_blank) + 2 * npad = Val(upper_rot_center)
            /\ Val(lower_rot_center_blank) + 2 * npad = Val(lower_rot_center)
            /\ calls'[1].n[1] = data.shape[1] * Val(upper_rot_center)]_vars

C11_ScheduleHasOneCenterPerAngle ==
    [][(reconstruct /\ calls' # <<>>) => Len(calls'[1].n) = theta]_vars

\* C12: after a full reconstruction the reported column count is the padded
\* column count minus 2 * npad, which is the column count at import, and the
\* reported depth is the row count at import.  Stated for the first
\* reconstruction of an imported volume, whose axes are still (angle, row,
\* column).
C12_ReportedGeometryIsImported ==
    [][(reconstruct /\ status_ID' = "Reconstruction Complete" /\ ~Reconstructed(data))
         => /\ sx' = Cols(data) - 2 * npad
            /\ sx' = flat[2]
            /\ sz' = flat[1]]_vars

\* C13: for every integer ring kernel width the operator enters, the width
\* remove_ring passes to the stripe-removal kernel is odd, at least 1 and at
\* least the input: the input itself when it is odd, the input plus one when
\* it is even.
C13_RingWidthCoercedOdd ==
    [][(remove_ring /\ calls' # <<>>)
         => LET w == Val(ring_width_blank)
                size == calls'[1].n[1]
            IN  /\ size % 2 = 1
                /\ size >= 1
                /\ size >= w
                /\ size = (IF w % 2 = 1 THEN w ELSE w + 1)]_vars

\* C14: the size a completed zinger_removal passed to the outlier-removal
\* kernel is the operator's zinger kernel size made odd (the input if odd, the
\* input plus one if even), whatever the ring-width field holds.
C14_ZingerUsesOwnKernelSize ==
    [][(zinger_removal /\ calls' # <<>> /\ raised' = "none")
         => LET k == Val(zinger_kernel_size_blank)
            IN  calls'[1].n[1] = (IF k % 2 = 1 THEN k ELSE k + 1)]_vars

\* C15: whenever remove_ring or zinger_removal has made an even kernel size
\* odd and run to its end, the status it ends with tells the operator so: it
\* is not the status the same stage ends with when nothing was changed.
C15_CoercionIsReported ==
    [][(/\ calls' # <<>> /\ raised' = "none"
        /\ \/ remove_ring /\ Val(ring_width_blank) % 2 = 0
           \/ zinger_removal /\ Val(zinger_kernel_size_blank) % 2 = 0)
         => status_ID' \notin {"Deringing", "Ring removed.",
                               "Correcting Zingers", "Artifacts Removed."}]_vars

\* C16: a normalization that completes runs, in this order and once each,
\* flat/dark correction, air correction (only when the toggle is on), padding
\* (only when a pad size is selected), flooring, negative logarithm, NaN
\* cleanup; these and nothing else are added to the volume.
C16_NormalizationOrder ==
    [][(normalization /\ status_ID' = "Preprocessing Complete")
         => LET steps == <<"normalize">>
                         \o (IF cb THEN <<"normalize_bg">> ELSE <<>>)
                         \o (IF pad_size # 0 THEN <<"pad">> ELSE <<>>)
                         \o <<"floor", "minus_log", "remove_nan">>
            IN  /\ data'.hist = data.hist \o steps
                /\ Len(calls') = Len(steps)
                /\ \A i \in 1..Len(steps) : calls'[i].k = steps[i]]_vars

C16_Witness ==
    /\ op = "normalization" /\ status_ID = "Preprocessing Complete"
    /\ cb /\ pad_size = PadLarge
    /\ Len(calls) = 6
    /\ Len(data.hist) = 6

\* C17: every handler invocation that runs an external kernel appends at
\* least one record to the operation log.
C17_KernelRunsAreLogged ==
    calls # <<>> => logged >= 1

\* C18: once a dataset has been exported, a further stage on the same dataset
\* (ring removal with a valid width, or another export) still appends its
\* record and runs to completion.
C18_LogStaysAppendable ==
    [][(/\ data.held /\ logfile = "closed"
        /\ \/ remove_ring /\ Val(ring_width_blank) >= 1
           \/ save_recon /\ ~(save_data_type = ".vol" /\ save_dtype \in {"u1", "u2"}))
         => /\ raised' = "none"
            /\ logged' >= 1
            /\ status_ID' \in {"Ring removed.", "Saving completed."}]_vars

\* C19: no handler leaves the status channel at an in-progress label: however
\* it ends, the status shows a terminal success or failure string.
C19_StatusIsTerminal ==
    status_ID \notin {"Preprocessing", "Centering", "Reconstructing.", "Deringing",
                      "Correcting Zingers", "Filtering", "Saving", "Correcting Tilt"}

C21_FreeMemTearsDatasetDown ==
    [][(client_free_mem /\ data.held)
         => /\ ~data'.held
            /\ flat' = <<>> /\ dark' = <<>> /\ theta' = 0
            /\ npad' = 0
            /\ upper_rot_center' = <<>> /\ lower_rot_center' = <<>>
            /\ data_max' = <<>> /\ data_min' = <<>>]_vars

\* C22: after every step that changes the values of the held volume the cached
\* data_max and data_min are the maximum and minimum of the volume as it now is.
C22_ExtremaFollowVolume ==
    [][(data' # data /\ data'.held)
         => /\ data_max' = ArrayMax(data')
            /\ data_min' = ArrayMin(data')]_vars

\* C23: in every reachable state the algorithm attribute is a single string tag
\* out of the fixed set of algorithm identifiers.
C23_AlgorithmTagIsEnumerated ==
    recon_type \in {Tag(t) : t \in {"gridrec", "fbp", "art", "bart", "sirt", "mlem", "osem",
                                    "ospml_hybrid", "ospml_quad", "pml_hybrid", "pml_quad",
                                    "grad"}}

\* C24: after every normalization that returns (no exception escaped) the dark
\* image is no longer held.
C24_DarkReleasedOnReturn ==
    [][(normalization /\ raised' = "none") => dark' = <<>>]_vars

C26_PreviewUsesScalarCenter ==
    [][(/\ calls' # <<>>
        /\ \/ up_recon_slice /\ op' = "up_recon_slice"
           \/ lower_recon_slice /\ op' = "lower_recon_slice")
         => LET shown == IF op' = "up_recon_slice" THEN Val(upper_rot_center_blank)
                         ELSE Val(lower_rot_center_blank)
            IN  /\ Len(calls') = 1
                /\ calls'[1].k = "recon"
                /\ calls'[1].n = <<IF npad # 0 THEN shown + 2 * npad ELSE shown>>]_vars

C26_Witness ==
    /\ op = "lower_recon_slice" /\ status_ID = "Slice Reconstructed."
    /\ npad > 0
    /\ calls[1].n = <<Val(lower_rot_center_blank) + 2 * npad>>

\* C27: the value the flooring step of normalization assigns to negative pixels
\* is strictly between 0 and 1, so that its negative logarithm is not 0.
C27_FloorIsNearZero ==
    \A i \in 1..Len(calls) :
        calls[i].k = "floor" => (0 < calls[i].n[1] /\ calls[i].n[1] < calls[i].n[2])

\* C28: right after import of a dataset of nRows >= 1 rows and nCols columns
\* the default upper slice is floor(nRows / 4), the default lower slice is
\* floor(3 * nRows / 4), both default centres are nCols / 2 (nCols half
\* columns), and 0 <= upper slice <= lower slice < nRows.
C28_DefaultSlicesFromRows ==
    [][client_read_nc
         => LET nRows == data'.shape[2]
                nCols == data'.shape[3]
            IN  /\ upper_rot_slice_blank' = <<nRows \div 4>>
                /\ lower_rot_slice_blank' = <<(3 * nRows) \div 4>>
                /\ upper_rot_center_blank' = <<nCols>>
                /\ lower_rot_center_blank' = <<nCols>>
                /\ 0 <= Val(upper_rot_slice_blank')
                /\ Val(upper_rot_slice_blank') <= Val(lower_rot_slice_blank')
                /\ Val(lower_rot_slice_blank') < nRows]_vars

\* C29: right after every import, also one that follows earlier processing or a
\* free memory, npad is 0.
C29_ImportResetsNpad ==
    [][client_read_nc => npad' = 0]_vars

\* C30: the flat/dark correction is applied to one imported volume at most
\* once, however many times normalization is invoked on it.
C30_CorrectionAppliedOnce ==
    data.held => Cardinality({i \in 1..Len(data.hist) : data.hist[i] = "normalize"}) <= 1

\* C31: every value that reaches the negative logarithm of normalization is
\* strictly positive: no negative and no zero value is handed to minus_log.
C31_LogInputIsPositive ==
    \A i \in 1..Len(calls) :
        calls[i].k = "minus_log"
            => \A j \in 1..Len(calls[i].s) : calls[i].s[j] = "positive"

\* C32: free memory invoked while no dataset is held raises no error and
\* changes nothing; invoked while a dataset is held it releases the volume.
C32_FreeMemIsSafe ==
    [][client_free_mem
         => IF data.held
            THEN ~data'.held /\ raised' = "none"
            ELSE /\ raised' = "none"
                 /\ UNCHANGED <<dataset, npad, status_ID, extrema>>]_vars

C34_FilterNeedsNoChoice ==
    [][filter_pp_data
         => IF pp_filter_type = "unset"
            THEN /\ raised' = "none"
                 /\ data' = data
                 /\ calls' = <<>>
                 /\ status_ID' # "Filtering"
            ELSE data.held => calls' = <<Call(pp_filter_type, <<>>, <<>>)>>]_vars

\* C35: a tilt correction that completes has rotated every projection of the
\* volume, nAngles of them.
C35_EveryProjectionRotated ==
    [][(tilt_correction /\ status_ID' = "Tilt Corrected")
         => /\ Len(calls') = 1
            /\ calls'[1].n = <<data.shape[1]>>]_vars

\* C36: in the Entropy variant the slice index handed to the search kernel for
\* the lower centre is the lower slice, and for the upper centre the upper slice.
C36_EntropySearchesOwnSlice ==
    [][(find_rot_center /\ find_center_type = "Entropy" /\ op' = "find_rot_center")
         => /\ Len(calls') >= 1
                => calls'[1].n = <<Val(upper_rot_slice_blank), Val(upper_rot_slice_blank)>>
            /\ Len(calls') >= 2
                => calls'[2].n = <<Val(lower_rot_slice_blank), Val(lower_rot_slice_blank)>>]_vars

\* C37: a movie timer that is running is eventually stopped (or replaced by
\* the timer of a new movie), whatever the operator does or does not do while
\* it ticks.
C37_MovieTimerStops ==
    (movie_timer = "running" /\ op # "movie_maker")
        ~> (movie_timer # "running" \/ op = "movie_maker")

\* C38: a tick of the movie timer never reads a volume that is not held, and
\* the frame it reads is one of the frames 0 .. nframes - 1 of the held volume.
C38_FrameReadIsValid ==
    [][onMovieFrame
         => /\ raised' = "none"
            /\ \A i \in 1..Len(calls') :
                   calls'[i].n[1] \in 0..(data.shape[1] - 1)]_vars
====
